---------------------------- MODULE Spec2Model ----------------------------
(***************************************************************************)
(* Telemetry exposition of the sensor station.                             *)
(*                                                                         *)
(*   pull path: metrics_handler (main/metrics.c), one HTTP request that    *)
(*              formats the Prometheus text document into a malloc'ed      *)
(*              buffer of 8192 bytes and sends it;                         *)
(*   push path: mqtt_publish_sensors (main/mqtt_publisher.c), concurrent   *)
(*              callers that format a JSON document into the one shared    *)
(*              4096-byte buffer under json_mutex and publish it.          *)
(*                                                                         *)
(* Text is measured in bytes.  A document is kept as the sequence of the   *)
(* chunks the code passed to snprintf (one chunk per call); the buffer is  *)
(* kept as the cursor `offset`, the number `written` of leading buffer     *)
(* bytes that hold document bytes, and a flag for a write past the end.    *)
(* The pull path takes one step per formatted write; the push path takes   *)
(* one step per run of formatted writes (document head, one sensor, tail)  *)
(* and keeps the largest cursor seen after any of them in tpeak.           *)
(*                                                                         *)
(* Spec follows one HTTP request or the publishing tasks of an initialised *)
(* publisher; SpecLife adds one concurrent call of mqtt_publisher_cleanup; *)
(* SpecPure applies is_mac_allowed and make_prometheus_metric_name to      *)
(* enumerated arguments.                                                   *)
(***************************************************************************)
EXTENDS Integers, Sequences, FiniteSets, TLC

(***************************************************************************)
(* Bounds of the explored inputs.                                          *)
(***************************************************************************)
MaxMeasurements == 3
StressMeasurements == 32
MaxSensors == 3
StressSensors == 26
MaxFilters == 2
MaxNameLen == 3

(***************************************************************************)
(* Program constants.                                                      *)
(***************************************************************************)
ResponseSize == 8192
JsonBufferSize == 4096
MaxCount == 256
DeviceNameSize == 64
MacStrLen == 17
MetricNameSize == 128
LenPrefix == 7

LenWeightHeader == 78
LenWeightValue == 27
LenWeightRawHeader == 78
LenWeightRawValue == 25
LenWifiHeader == 76
LenWifiValue == 28
LenUptime == 106
LenRssiHeader == 89
LenRssiValue == 47
LenHelpBegin == 15
LenHelpUnit == 4
LenNewline == 1
LenType == 14
LenMetricValue == 32

LenJsonOpen == 1
LenTimestamp == 13
LenHostname == 14
LenUptimeSeconds == 18
LenWifiRssi == 17
LenHeapFree == 19
LenHeapMinFree == 23
LenHeapLargest == 33
LenSensorsOpen == 11
LenComma == 1
LenEntryOpen == 1
LenMetricName == 17
LenDisplayName == 18
LenUnit == 10
LenValue == 9
LenLastUpdated == 15
LenDeviceName == 17
LenDeviceId == 15
LenEntryClose == 1
LenSensorsClose == 1
LenJsonClose == 1

Min(a, b) == IF a < b THEN a ELSE b

\* number of characters "%d" prints for n
RECURSIVE DecLen(_)
DecLen(n) == IF n < 0 THEN 1 + DecLen(0 - n)
             ELSE IF n < 10 THEN 1 ELSE 1 + DecLen(n \div 10)

\* number of characters "%.2f" prints for the integral value v
FloatLen(v) == DecLen(v) + 3

(***************************************************************************)
(* Beacon Metric Registry (bthome.h): display name and unit description of *)
(* a measurement kind, NULL when the kind is not registered.  Kinds 1 and  *)
(* 2 carry names that differ only in letter case, kind 3 a name with a     *)
(* hyphen and a space, kind 4 is unregistered.                             *)
(***************************************************************************)
NULL == "NULL"
Kinds == 1..4
\* the values of a uint8_t object id
ObjectIds == 0..255

bthome_get_object_name(object_id) ==
    CASE object_id = 1 -> <<"T", "e", "m", "p">>
      [] object_id = 2 -> <<"t", "e", "m", "p">>
      [] object_id = 3 -> <<"D", "e", "w", "-", "P", "t", " ", "1">>
      [] OTHER -> NULL

bthome_get_object_unit_description(object_id) ==
    CASE object_id = 1 -> "degrees Celsius"
      [] object_id = 2 -> ""
      [] OTHER -> NULL

bthome_get_scaled_value(m) == m.raw

(***************************************************************************)
(* Metric Name Normalizer                                                  *)
(***************************************************************************)
NormalizeCharSwap(c) ==
    CASE c = " " \/ c = "-" -> "_"
      [] c = "_" -> "-"
      [] OTHER -> c

NormalizeChar(c) ==
    CASE c = " " \/ c = "-" -> "_"
      [] c = "A" -> "a" [] c = "B" -> "b" [] c = "C" -> "c" [] c = "D" -> "d"
      [] c = "E" -> "e" [] c = "F" -> "f" [] c = "G" -> "g" [] c = "H" -> "h"
      [] c = "I" -> "i" [] c = "J" -> "j" [] c = "K" -> "k" [] c = "L" -> "l"
      [] c = "M" -> "m" [] c = "N" -> "n" [] c = "O" -> "o" [] c = "P" -> "p"
      [] c = "Q" -> "q" [] c = "R" -> "r" [] c = "S" -> "s" [] c = "T" -> "t"
      [] c = "U" -> "u" [] c = "V" -> "v" [] c = "W" -> "w" [] c = "X" -> "x"
      [] c = "Y" -> "y" [] c = "Z" -> "z"
      [] OTHER -> c

\* the namespace token is kept as one element; every element of it is
\* lower case or '_' and is left alone by the character loop
make_prometheus_metric_name(name) ==
    LET full == <<"bthome_">> \o name
        out == SubSeq(full, 1, Min(Len(full), MetricNameSize - LenPrefix))
    IN  [i \in 1..Len(out) |-> NormalizeChar(out[i])]

\* byte length of a metric identifier
RECURSIVE IdLen(_)
IdLen(id) == IF id = <<>> THEN 0 ELSE Len(Head(id)) + IdLen(Tail(id))

WeightId == <<"weight_grams">>
WeightRawId == <<"weight_raw">>
WifiId == <<"wifi_rssi_dbm">>
UptimeId == <<"uptime_seconds">>
RssiId == <<"bthome_", "r", "s", "s", "i", "_", "d", "b", "m">>

(***************************************************************************)
(* Identity Filter Policy                                                  *)
(***************************************************************************)
is_object_id_selected(object_id, sel) ==
    IF Len(sel) = 0 THEN FALSE
    ELSE \E i \in 1..Len(sel) : sel[i] = object_id

\* the six bytes of beacon address number a
AddrBytes(a) == <<170, 187, 204, 221, 238, a>>

HexDigit(n) ==
    CASE n = 0 -> "0" [] n = 1 -> "1" [] n = 2 -> "2" [] n = 3 -> "3"
      [] n = 4 -> "4" [] n = 5 -> "5" [] n = 6 -> "6" [] n = 7 -> "7"
      [] n = 8 -> "8" [] n = 9 -> "9" [] n = 10 -> "a" [] n = 11 -> "b"
      [] n = 12 -> "c" [] n = 13 -> "d" [] n = 14 -> "e" [] OTHER -> "f"

\* "%02x" of a byte
Hex2(b) == HexDigit(b \div 16) \o HexDigit(b % 16)

\* "%02x:%02x:%02x:%02x:%02x:%02x" of six bytes
HexText(a) ==
    Hex2(a[1]) \o ":" \o Hex2(a[2]) \o ":" \o Hex2(a[3]) \o ":"
       \o Hex2(a[4]) \o ":" \o Hex2(a[5]) \o ":" \o Hex2(a[6])

\* "%02x:%02x:%02x:%02x:%02x:%02x" of an address
MacText(addr) ==
    [t |-> "hex", addr |-> addr, text |-> HexText(AddrBytes(addr)), len |-> MacStrLen]

\* strncpy of a configured name into device_name[device_name_size]
NameText(name) ==
    [t |-> "name", addr |-> 0, text |-> name, len |-> Min(Len(name), DeviceNameSize - 1)]

NoName == [t |-> "none", addr |-> 0, text |-> "", len |-> 0]

LastMatch(addr, filters) ==
    IF \E i \in 1..Len(filters) : filters[i].mac_addr = addr
    THEN CHOOSE i \in 1..Len(filters) :
            /\ filters[i].mac_addr = addr
            /\ \A j \in (i + 1)..Len(filters) : filters[j].mac_addr # addr
    ELSE 0

\* index of the first filter entry whose address equals addr, 0 if none
FirstMatch(addr, filters) ==
    IF \E i \in 1..Len(filters) : filters[i].mac_addr = addr
    THEN CHOOSE i \in 1..Len(filters) :
            /\ filters[i].mac_addr = addr
            /\ \A j \in 1..(i - 1) : filters[j].mac_addr # addr
    ELSE 0

LookupIgnoringName(addr, filters) ==
    IF Len(filters) = 0
    THEN [allowed |-> TRUE, device_name |-> MacText(addr)]
    ELSE LET i == FirstMatch(addr, filters)
         IN  IF i = 0 \/ ~filters[i].enabled
             THEN [allowed |-> FALSE, device_name |-> NoName]
             ELSE [allowed |-> TRUE, device_name |-> MacText(addr)]

AllowEveryMac(addr, filters) == [allowed |-> TRUE, device_name |-> MacText(addr)]

AllowOnlyListed(addr, filters) ==
    [allowed |-> \E i \in 1..Len(filters) : filters[i].mac_addr = addr /\ filters[i].enabled,
     device_name |-> MacText(addr)]

\* [allowed, device_name] as is_mac_allowed returns and fills them
is_mac_allowed(addr, filters) ==
    IF Len(filters) = 0
    THEN [allowed |-> TRUE, device_name |-> MacText(addr)]
    ELSE LET i == FirstMatch(addr, filters)
         IN  IF i = 0 THEN [allowed |-> FALSE, device_name |-> NoName]
             ELSE IF ~filters[i].enabled
                  THEN [allowed |-> FALSE, device_name |-> NoName]
                  ELSE IF filters[i].name # ""
                       THEN [allowed |-> TRUE, device_name |-> NameText(filters[i].name)]
                       ELSE [allowed |-> TRUE, device_name |-> MacText(addr)]

(***************************************************************************)
(* Formatted write: offset += snprintf(buf + offset, size - offset, ...)   *)
(* for a text of n bytes.  b = [offset, written, oob].                     *)
(*   offset < size : min(n, size - offset - 1) bytes and a NUL are stored; *)
(*   offset = size : the size argument is 0, nothing is stored;            *)
(*   offset > size : size - offset wraps around as a size_t; the C library *)
(*                   either rejects the size (returns -1, "eoverflow") or  *)
(*                   stores the text past the end of the buffer            *)
(*                   ("overrun").                                          *)
(* In every defined case the return value, the intended length n, is added *)
(* to offset.                                                              *)
(***************************************************************************)
Outcomes == {"eoverflow", "overrun"}

SnprintfAppend(b, size, n, oc) ==
    IF b.offset < size
    THEN [offset |-> b.offset + n,
          written |-> b.offset + Min(n, size - b.offset - 1),
          oob |-> b.oob]
    ELSE IF b.offset = size
    THEN [offset |-> b.offset + n, written |-> b.written, oob |-> b.oob]
    ELSE IF oc = "eoverflow"
    THEN [offset |-> b.offset - 1, written |-> b.written, oob |-> b.oob]
    ELSE [offset |-> b.offset + n, written |-> b.written, oob |-> TRUE]

EmptyBuf == [offset |-> 0, written |-> 0, oob |-> FALSE]


(***************************************************************************)
(* State.                                                                  *)
(*   pull path: settings, station, cache are the inputs of one request;    *)
(*   pc .. ret are metrics_handler's locals and its effects.               *)
(***************************************************************************)
VARIABLES
    settings,        \* [hostname, mac_filters, selected_bthome_object_ids]
    station,         \* [weight_available, weight, weight_raw, rssi, uptime_seconds]
    cache,           \* sequence of [addr, rssi, packet]
    pc,              \* position of metrics_handler
    response,        \* "none" | "allocated" | "freed"
    buf,             \* [offset, written, oob] of response
    doc,             \* chunks passed to snprintf so far
    unique_metrics,  \* unique_metrics[0 .. unique_count-1]
    step,            \* index of the next formatted write of a fixed sequence
    fam_i,           \* i of the family loop
    dev_i,           \* device the running bthome_cache_iterate is at
    meas_i,          \* i of the measurement loop in the running callback
    sent,            \* what httpd_resp_send / httpd_resp_send_500 was given
    ret,             \* return value of metrics_handler
    libc,            \* what this build's snprintf does with a wrapped size:
                     \* "unknown" until the first such call, then fixed
    mqtt_settings,   \* [mqtt_broker_url, mqtt_topic, hostname]
    sensors,         \* the sensor registry, sensors[1 .. sensors_get_count()]
    init_pc,         \* "pending" until mqtt_publisher_init has run
    mqtt_client,     \* NULL or the client handle
    mqtt_started,    \* the client delivers events to mqtt_event_handler
    mqtt_connected,
    json_buffer,     \* NULL or "allocated"
    json_mutex,      \* NULL or "created"
    mutex_holder,    \* the task holding json_mutex, "none" if free
    json,            \* [written, oob, doc]: the content of json_buffer
    tpc,             \* position of each task in mqtt_publish_sensors
    toffset,         \* each call's local offset
    ti,              \* each call's loop index i
    tpeak,           \* each call's largest offset after a formatted write
    first_sensor,    \* each call's local first_sensor
    tret,            \* what each task's last call returned
    call,            \* per task, what its running or last call has done:
                     \* [takes, writes, gives, handed, timed_out]
    published,       \* what esp_mqtt_client_publish was last given
    tjson,           \* each call's local `json`: "unset", "live" (points to
                     \* json_buffer), "freed" (the buffer was freed since)
                     \* or "null"
    cleanup_pc,      \* position of mqtt_publisher_cleanup, "off" where it
                     \* is not called
    last_event,      \* the most recent connection event delivered
    faults,          \* the uses of a freed buffer or a deleted mutex so far
    fn_pc,           \* position of a run of one of the pure helpers
    fn_in,           \* its argument
    fn_out           \* its result

pullVars == <<settings, station, cache, pc, response, buf, doc, unique_metrics,
              step, fam_i, dev_i, meas_i, sent, ret>>

pushConfig == <<mqtt_settings, sensors, init_pc, mqtt_client, mqtt_started,
                mqtt_connected, json_buffer, json_mutex>>

pushShared == <<pushConfig, mutex_holder, json, published>>

pushLocal == <<tpc, toffset, tpeak, ti, first_sensor, tret, call, tjson>>

lifeVars == <<cleanup_pc, last_event, faults>>

pushVars == <<pushShared, pushLocal, lifeVars>>

pureVars == <<fn_pc, fn_in, fn_out>>

vars == <<pullVars, libc, pushVars, pureVars>>

Hostname == IF settings.hostname # NULL /\ settings.hostname # ""
            THEN settings.hostname ELSE "weight-station"

Chunk(tag, kind, id, dev, mac, raw, n) ==
    [tag |-> tag, kind |-> kind, id |-> id, dev |-> dev, mac |-> mac,
     raw |-> raw, len |-> n]

\* the outcome of a formatted write at cursor `offset`: the build's one
\* behaviour for a wrapped size, chosen when it first shows
WriteOutcome(offset, size, oc) ==
    IF offset > size
    THEN /\ IF libc = "unknown" THEN oc \in Outcomes ELSE oc = libc
         /\ libc' = oc
    ELSE /\ oc = "overrun"
         /\ UNCHANGED libc

\* offset += snprintf(response + offset, response_size - offset, ...)
Emit(c) ==
    /\ \E oc \in Outcomes :
          /\ WriteOutcome(buf.offset, ResponseSize, oc)
          /\ buf' = SnprintfAppend(buf, ResponseSize, c.len, oc)
    /\ doc' = Append(doc, c)

NoEmit == UNCHANGED <<buf, doc, libc>>

(***************************************************************************)
(* metrics_handler                                                         *)
(***************************************************************************)
HandlerStartNoReturn ==
    /\ pc = "start"
    /\ \/ /\ response' = "allocated"
          /\ UNCHANGED <<sent, ret>>
       \/ /\ response' = "none"
          /\ sent' = [status |-> 500, len |-> 0, valid |-> 0]
          /\ ret' = "ESP_FAIL"
    /\ pc' = "fixed"
    /\ step' = 1
    /\ UNCHANGED <<pushVars, pureVars>>
    /\ UNCHANGED <<libc, settings, station, cache, buf, doc, unique_metrics,
                   fam_i, dev_i, meas_i>>

\* malloc(response_size) and the NULL check
HandlerStart ==
    /\ pc = "start"
    /\ \/ /\ response' = "allocated"
          /\ pc' = "fixed"
          /\ step' = 1
          /\ UNCHANGED <<sent, ret>>
       \/ /\ response' = "none"
          /\ sent' = [status |-> 500, len |-> 0, valid |-> 0]
          /\ ret' = "ESP_FAIL"
          /\ pc' = "done"
          /\ UNCHANGED step
    /\ UNCHANGED <<pushVars, pureVars>>
    /\ UNCHANGED <<libc, settings, station, cache, buf, doc, unique_metrics,
                   fam_i, dev_i, meas_i>>

FixedChunkUptimeFirst(i) ==
    IF i = 1
    THEN Chunk("HELP_TYPE_VALUE", 0, UptimeId, NoName, 0, 0, LenUptime)
    ELSE Chunk("HELP_TYPE", 0, WeightId, NoName, 0, 0, LenWeightHeader)

\* the seven formatted writes of the process-level metrics, in program order
FixedChunk(i) ==
    LET h == Len(Hostname)
    IN  CASE i = 1 -> Chunk("HELP_TYPE", 0, WeightId, NoName, 0, 0, LenWeightHeader)
          [] i = 2 -> Chunk("VALUE", 0, WeightId, NoName, 0, 0,
                            LenWeightValue + h + FloatLen(station.weight))
          [] i = 3 -> Chunk("HELP_TYPE", 0, WeightRawId, NoName, 0, 0, LenWeightRawHeader)
          [] i = 4 -> Chunk("VALUE", 0, WeightRawId, NoName, 0, 0,
                            LenWeightRawValue + h + DecLen(station.weight_raw))
          [] i = 5 -> Chunk("HELP_TYPE", 0, WifiId, NoName, 0, 0, LenWifiHeader)
          [] i = 6 -> Chunk("VALUE", 0, WifiId, NoName, 0, 0,
                            LenWifiValue + h + DecLen(station.rssi))
          [] OTHER -> Chunk("HELP_TYPE_VALUE", 0, UptimeId, NoName, 0, 0,
                            LenUptime + h + DecLen(station.uptime_seconds))

FixedCondition(i) ==
    CASE i = 2 -> station.weight_available
      [] i = 4 -> station.weight_available
      [] i = 6 -> station.rssi # 0
      [] OTHER -> TRUE

EmitFixed ==
    /\ pc = "fixed"
    /\ IF FixedCondition(step) THEN Emit(FixedChunk(step)) ELSE NoEmit
    /\ IF step < 7
       THEN step' = step + 1 /\ pc' = "fixed"
       ELSE step' = 0 /\ pc' = "check_selection"
    /\ UNCHANGED <<pushVars, pureVars>>
    /\ UNCHANGED <<settings, station, cache, response, unique_metrics,
                   fam_i, dev_i, meas_i, sent, ret>>

\* if (settings->selected_bthome_object_ids_count > 0)
CheckSelection ==
    /\ pc = "check_selection"
    /\ IF Len(settings.selected_bthome_object_ids) > 0
       THEN pc' = "collect" /\ dev_i' = 1 /\ meas_i' = 1 /\ unique_metrics' = <<>>
       ELSE pc' = "send" /\ UNCHANGED <<dev_i, meas_i, unique_metrics>>
    /\ UNCHANGED <<pushVars, pureVars>>
    /\ UNCHANGED <<libc, settings, station, cache, response, buf, doc, step, fam_i, sent, ret>>

CollectStepNoScan(ids, object_id) ==
    IF ~is_object_id_selected(object_id, settings.selected_bthome_object_ids)
    THEN ids
    ELSE IF Len(ids) < MaxCount THEN Append(ids, object_id) ELSE ids

\* one round of the measurement loop of collect_metrics_iterator
CollectStep(ids, object_id) ==
    IF ~is_object_id_selected(object_id, settings.selected_bthome_object_ids)
    THEN ids
    ELSE LET found == \E j \in 1..Len(ids) : ids[j] = object_id
         IN  IF ~found /\ Len(ids) < MaxCount THEN Append(ids, object_id) ELSE ids

CollectMeasurement ==
    /\ pc = "collect"
    /\ dev_i <= Len(cache)
    /\ meas_i <= Len(cache[dev_i].packet)
    /\ unique_metrics' = CollectStep(unique_metrics, cache[dev_i].packet[meas_i].object_id)
    /\ meas_i' = meas_i + 1
    /\ UNCHANGED <<pushVars, pureVars>>
    /\ UNCHANGED <<libc, settings, station, cache, pc, response, buf, doc, step,
                   fam_i, dev_i, sent, ret>>

\* collect_metrics_iterator returns true: on to the next device
CollectReturn ==
    /\ pc = "collect"
    /\ dev_i <= Len(cache)
    /\ meas_i > Len(cache[dev_i].packet)
    /\ dev_i' = dev_i + 1
    /\ meas_i' = 1
    /\ UNCHANGED <<pushVars, pureVars>>
    /\ UNCHANGED <<libc, settings, station, cache, pc, response, buf, doc, unique_metrics,
                   step, fam_i, sent, ret>>

\* bthome_cache_iterate(collect_metrics_iterator) returns; the RSSI header
RssiHeader ==
    /\ pc = "collect"
    /\ dev_i > Len(cache)
    /\ Emit(Chunk("HELP_TYPE", 0, RssiId, NoName, 0, 0, LenRssiHeader))
    /\ pc' = "rssi"
    /\ dev_i' = 1
    /\ UNCHANGED <<pushVars, pureVars>>
    /\ UNCHANGED <<settings, station, cache, response, unique_metrics, step,
                   fam_i, meas_i, sent, ret>>

\* output_rssi_iterator for one device
RssiCallback ==
    /\ pc = "rssi"
    /\ dev_i <= Len(cache)
    /\ LET d == cache[dev_i]
           r == is_mac_allowed(d.addr, settings.mac_filters)
       IN  IF r.allowed
           THEN Emit(Chunk("VALUE", 0, RssiId, r.device_name, d.addr, d.rssi,
                           LenRssiValue + Len(Hostname) + r.device_name.len
                           + MacStrLen + DecLen(d.rssi)))
           ELSE NoEmit
    /\ dev_i' = dev_i + 1
    /\ UNCHANGED <<pushVars, pureVars>>
    /\ UNCHANGED <<settings, station, cache, pc, response, unique_metrics, step,
                   fam_i, meas_i, sent, ret>>

RssiDone ==
    /\ pc = "rssi"
    /\ dev_i > Len(cache)
    /\ pc' = "family"
    /\ fam_i' = 1
    /\ UNCHANGED <<pushVars, pureVars>>
    /\ UNCHANGED <<libc, settings, station, cache, response, buf, doc, unique_metrics,
                   step, dev_i, meas_i, sent, ret>>

FamilyStartNoSkip ==
    /\ pc = "family"
    /\ IF fam_i > Len(unique_metrics)
       THEN pc' = "send" /\ NoEmit /\ UNCHANGED <<fam_i, step>>
       ELSE LET metric_id == unique_metrics[fam_i]
                name == bthome_get_object_name(metric_id)
                metric_name == IF name = NULL THEN <<"bthome_">>
                               ELSE make_prometheus_metric_name(name)
            IN  /\ Emit(Chunk("HELP_BEGIN", metric_id, metric_name, NoName, 0, 0,
                              LenHelpBegin + IdLen(metric_name)))
                /\ IF name = NULL
                   THEN pc' = "family" /\ fam_i' = fam_i + 1 /\ UNCHANGED step
                   ELSE pc' = "family_header" /\ step' = 2 /\ UNCHANGED fam_i
    /\ UNCHANGED <<pushVars, pureVars>>
    /\ UNCHANGED <<settings, station, cache, response, unique_metrics,
                   dev_i, meas_i, sent, ret>>

\* head of the family loop: the loop test, the name lookup and the first
\* formatted write of the HELP line
FamilyStart ==
    /\ pc = "family"
    /\ IF fam_i > Len(unique_metrics)
       THEN pc' = "send" /\ NoEmit /\ UNCHANGED <<fam_i, step>>
       ELSE LET metric_id == unique_metrics[fam_i]
                name == bthome_get_object_name(metric_id)
            IN  IF name = NULL
                THEN pc' = "family" /\ fam_i' = fam_i + 1 /\ NoEmit /\ UNCHANGED step
                ELSE LET metric_name == make_prometheus_metric_name(name)
                     IN  /\ Emit(Chunk("HELP_BEGIN", metric_id, metric_name, NoName, 0, 0,
                                       LenHelpBegin + IdLen(metric_name) + Len(name)))
                         /\ pc' = "family_header"
                         /\ step' = 2
                         /\ UNCHANGED fam_i
    /\ UNCHANGED <<pushVars, pureVars>>
    /\ UNCHANGED <<settings, station, cache, response, unique_metrics,
                   dev_i, meas_i, sent, ret>>

\* " in <unit>", "\n" and the TYPE line of the family header
FamilyHeader ==
    /\ pc = "family_header"
    /\ LET metric_id == unique_metrics[fam_i]
           metric_name == make_prometheus_metric_name(bthome_get_object_name(metric_id))
           unit_desc == bthome_get_object_unit_description(metric_id)
       IN  CASE step = 2 ->
                  IF unit_desc # NULL /\ Len(unit_desc) > 0
                  THEN Emit(Chunk("HELP_UNIT", metric_id, metric_name, NoName, 0, 0,
                                  LenHelpUnit + Len(unit_desc)))
                  ELSE NoEmit
             [] step = 3 ->
                  Emit(Chunk("NEWLINE", metric_id, metric_name, NoName, 0, 0, LenNewline))
             [] OTHER ->
                  Emit(Chunk("TYPE", metric_id, metric_name, NoName, 0, 0,
                             LenType + IdLen(metric_name)))
    /\ IF step < 4
       THEN step' = step + 1 /\ UNCHANGED <<pc, dev_i, meas_i>>
       ELSE step' = 0 /\ pc' = "values" /\ dev_i' = 1 /\ meas_i' = 1
    /\ UNCHANGED <<pushVars, pureVars>>
    /\ UNCHANGED <<settings, station, cache, response, unique_metrics,
                   fam_i, sent, ret>>

\* output_metric_for_id_iterator: one round of its measurement loop, or its
\* early return for a device the filters exclude
ValueStep ==
    /\ pc = "values"
    /\ dev_i <= Len(cache)
    /\ LET d == cache[dev_i]
           r == is_mac_allowed(d.addr, settings.mac_filters)
           current_metric_id == unique_metrics[fam_i]
       IN  IF ~r.allowed \/ meas_i > Len(d.packet)
           THEN dev_i' = dev_i + 1 /\ meas_i' = 1 /\ NoEmit
           ELSE LET m == d.packet[meas_i]
                    name == bthome_get_object_name(m.object_id)
                IN  /\ meas_i' = meas_i + 1
                    /\ UNCHANGED dev_i
                    /\ IF m.object_id # current_metric_id \/ name = NULL
                       THEN NoEmit
                       ELSE LET metric_name == make_prometheus_metric_name(name)
                                value == bthome_get_scaled_value(m)
                            IN  Emit(Chunk("VALUE", m.object_id, metric_name,
                                           r.device_name, d.addr, m.raw,
                                           LenMetricValue + IdLen(metric_name)
                                           + Len(Hostname) + r.device_name.len
                                           + MacStrLen + FloatLen(value)))
    /\ UNCHANGED <<pushVars, pureVars>>
    /\ UNCHANGED <<settings, station, cache, pc, response, unique_metrics, step,
                   fam_i, sent, ret>>

\* bthome_cache_iterate(output_metric_for_id_iterator) returns: next family
ValuesDone ==
    /\ pc = "values"
    /\ dev_i > Len(cache)
    /\ pc' = "family"
    /\ fam_i' = fam_i + 1
    /\ UNCHANGED <<pushVars, pureVars>>
    /\ UNCHANGED <<libc, settings, station, cache, response, buf, doc, unique_metrics,
                   step, dev_i, meas_i, sent, ret>>

\* httpd_resp_send(req, response, offset); free(response); return ESP_OK
Send ==
    /\ pc = "send"
    /\ sent' = [status |-> 200, len |-> buf.offset, valid |-> buf.written]
    /\ response' = "freed"
    /\ ret' = "ESP_OK"
    /\ pc' = "done"
    /\ UNCHANGED <<pushVars, pureVars>>
    /\ UNCHANGED <<libc, settings, station, cache, buf, doc, unique_metrics, step,
                   fam_i, dev_i, meas_i>>

NextPull ==
    \/ HandlerStart
    \/ EmitFixed
    \/ CheckSelection
    \/ CollectMeasurement
    \/ CollectReturn
    \/ RssiHeader
    \/ RssiCallback
    \/ RssiDone
    \/ FamilyStart
    \/ FamilyHeader
    \/ ValueStep
    \/ ValuesDone
    \/ Send


(***************************************************************************)
(* Inputs of a request.                                                    *)
(***************************************************************************)
KindSeqs(n) == UNION {[1..k -> Kinds] : k \in 0..n}

MkPacket(ks) == [i \in 1..Len(ks) |-> [object_id |-> ks[i], raw |-> 20 + i]]

MkDevice(a, ks) == [addr |-> a, rssi |-> 0 - (60 + a), packet |-> MkPacket(ks)]

\* beacon addresses in range of the station
Addrs == {1, 2}

RECURSIVE TotalLen(_)
TotalLen(f) == IF f = <<>> THEN 0 ELSE Len(Head(f)) + TotalLen(Tail(f))

\* caches of the beacons in range (one packet per address, the device at
\* place i has address i) holding at most MaxMeasurements measurements in all
Caches ==
    UNION {{[i \in 1..n |-> MkDevice(i, f[i])] :
               f \in {g \in [1..n -> KindSeqs(MaxMeasurements)] :
                         TotalLen(g) <= MaxMeasurements}}
           : n \in 0..Cardinality(Addrs)}

Filter(a, e, n) == [mac_addr |-> a, enabled |-> e, name |-> n]

FilterLists ==
    {<<>>,
     <<Filter(3, TRUE, "attic"), Filter(1, TRUE, "porch")>>,
     <<Filter(1, FALSE, "porch"), Filter(1, TRUE, "deck"), Filter(2, TRUE, "")>>}

Selections == {<<>>, <<2, 1>>, <<4, 3, 1>>}

DefaultStation ==
    [weight_available |-> TRUE, weight |-> 1250, weight_raw |-> 84213,
     rssi |-> 0 - 55, uptime_seconds |-> 3600]

Stations ==
    {DefaultStation,
     [weight_available |-> FALSE, weight |-> 0, weight_raw |-> 0,
      rssi |-> 0, uptime_seconds |-> 0]}

Hostnames == {NULL, "", "station1"}

StressPacket ==
    [i \in 1..StressMeasurements |->
        [object_id |-> IF i % 2 = 1 THEN 1 ELSE 3, raw |-> 20 + i]]

StressCache ==
    <<[addr |-> 1, rssi |-> 0 - 61, packet |-> StressPacket],
      [addr |-> 2, rssi |-> 0 - 62, packet |-> StressPacket]>>

StressFilters ==
    <<Filter(1, TRUE, "greenhouse north bench probe"),
      Filter(2, TRUE, "greenhouse south bench probe")>>

\* one beacon reporting every object id, and two of them twice
WidePacket ==
    [i \in 1..(MaxCount + 2) |-> [object_id |-> (i - 1) % MaxCount, raw |-> 20]]

WideCache == <<[addr |-> 1, rssi |-> 0 - 61, packet |-> WidePacket]>>

WideSelection == [i \in 1..MaxCount |-> MaxCount - i]

MkSettings(h, f, s) ==
    [hostname |-> h, mac_filters |-> f, selected_bthome_object_ids |-> s]

\* [settings, station, cache] of the requests explored
PullInputs ==
    {[settings |-> MkSettings(h, <<>>, <<>>), station |-> st, cache |-> <<>>]
        : h \in Hostnames, st \in Stations}
    \cup
    {[settings |-> MkSettings("station1", f, s), station |-> DefaultStation, cache |-> c]
        : f \in FilterLists, s \in Selections, c \in Caches}
    \cup
    {[settings |-> MkSettings("weight-station-greenhouse-north", StressFilters, <<3, 1>>),
      station |-> DefaultStation, cache |-> StressCache],
     [settings |-> MkSettings("station1", <<>>, WideSelection),
      station |-> DefaultStation, cache |-> WideCache]}

PullStart ==
    /\ response = "none"
    /\ buf = EmptyBuf
    /\ doc = <<>>
    /\ unique_metrics = <<>>
    /\ step = 0
    /\ fam_i = 0
    /\ dev_i = 0
    /\ meas_i = 0
    /\ sent = [status |-> 0, len |-> 0, valid |-> 0]
    /\ ret = "none"
    /\ libc = "unknown"



(***************************************************************************)
(* Push path: mqtt_publisher.c                                             *)
(***************************************************************************)
Tasks == {"t1", "t2"}

\* what gettimeofday, esp_timer_get_time, wifi_get_rssi and the heap
\* queries return during a call
Telemetry ==
    [tv_sec |-> 1700000000, uptime_seconds |-> 3600, rssi |-> 0 - 55,
     free_heap |-> 180000, min_free_heap |-> 120000, largest_free_block |-> 65536]

PushHostname == IF mqtt_settings.hostname # NULL /\ mqtt_settings.hostname # ""
                THEN mqtt_settings.hostname ELSE "weight-station"

JsonChunk(t, tag, sensor, n) == [task |-> t, tag |-> tag, sensor |-> sensor, len |-> n]

NewCall == [takes |-> 0, writes |-> 0, gives |-> 0, handed |-> FALSE, timed_out |-> FALSE]

Max(a, b) == IF a > b THEN a ELSE b

\* the formatted writes of the chunks cs one after the other, from the
\* cursor and buffer state b; peak is the largest cursor after any of them,
\* wrapped tells whether one of them was called with a wrapped size
RECURSIVE AppendAll(_, _, _, _)
AppendAll(b, size, cs, oc) ==
    IF cs = <<>> THEN b
    ELSE LET r == SnprintfAppend(b, size, Head(cs).len, oc)
         IN  AppendAll([offset |-> r.offset, written |-> r.written, oob |-> r.oob,
                        peak |-> Max(b.peak, r.offset),
                        wrapped |-> b.wrapped \/ b.offset > size],
                       size, Tail(cs), oc)

\* task t formats the chunks cs into json_buffer:
\* offset += snprintf(json + offset, json_size - offset, ...) for each
EmitJson(t, cs) ==
    \E oc \in Outcomes :
       LET r == AppendAll([offset |-> toffset[t], written |-> json.written,
                           oob |-> json.oob, peak |-> tpeak[t], wrapped |-> FALSE],
                          JsonBufferSize, cs, oc)
       IN  /\ IF r.wrapped
              THEN /\ IF libc = "unknown" THEN oc \in Outcomes ELSE oc = libc
                   /\ libc' = oc
              ELSE /\ oc = "overrun"
                   /\ UNCHANGED libc
           /\ toffset' = [toffset EXCEPT ![t] = r.offset]
           /\ tpeak' = [tpeak EXCEPT ![t] = r.peak]
           /\ json' = [written |-> r.written, oob |-> r.oob,
                       doc |-> IF toffset[t] = 0 THEN cs ELSE json.doc \o cs]
           /\ call' = [call EXCEPT ![t].writes = @ + Len(cs)]
           /\ faults' = IF tjson[t] = "freed" THEN faults \cup {"write_after_free"}
                        ELSE faults

\* mqtt_publisher_init, run once at start-up, with the results its calls
\* into FreeRTOS, malloc and the MQTT client can have
MqttInit ==
    /\ init_pc = "pending"
    /\ init_pc' = "done"
    /\ IF mqtt_settings.mqtt_broker_url = NULL \/ mqtt_settings.mqtt_broker_url = ""
       THEN UNCHANGED <<json_mutex, json_buffer, mqtt_client, mqtt_started>>
       ELSE \E r \in {"mutex_failed", "no_mem", "client_failed", "start_failed", "ok"} :
              /\ json_mutex' = IF r = "mutex_failed" THEN NULL ELSE "created"
              /\ json_buffer' = IF r \in {"mutex_failed", "no_mem"} THEN NULL ELSE "allocated"
              /\ mqtt_client' = IF r \in {"start_failed", "ok"} THEN "client" ELSE NULL
              /\ mqtt_started' = (r = "ok")
    /\ UNCHANGED <<pureVars, pullVars, libc, mqtt_settings, sensors, mqtt_connected, mutex_holder,
                   json, published, pushLocal, lifeVars>>

ConnectionEvents ==
    {"MQTT_EVENT_CONNECTED", "MQTT_EVENT_DISCONNECTED", "MQTT_EVENT_ERROR"}

\* the switch of mqtt_event_handler: mqtt_connected after the event
ConnectedAfter(event_id, connected) ==
    CASE event_id = "MQTT_EVENT_CONNECTED" -> TRUE
      [] event_id = "MQTT_EVENT_DISCONNECTED" -> FALSE
      [] event_id = "MQTT_EVENT_ERROR" -> FALSE
      [] OTHER -> connected

\* mqtt_event_handler
MqttEvent ==
    /\ mqtt_started
    /\ \E event_id \in {"MQTT_EVENT_CONNECTED", "MQTT_EVENT_DISCONNECTED",
                        "MQTT_EVENT_ERROR", "MQTT_EVENT_PUBLISHED"} :
          /\ mqtt_connected' = ConnectedAfter(event_id, mqtt_connected)
          /\ last_event' = IF event_id \in ConnectionEvents THEN event_id ELSE last_event
    /\ UNCHANGED <<pureVars, pullVars, libc, mqtt_settings, sensors, init_pc, mqtt_client,
                   mqtt_started, json_buffer, json_mutex, mutex_holder, json,
                   published, pushLocal, cleanup_pc, faults>>

EnabledWhenClientExists == mqtt_client # NULL

mqtt_is_enabled == mqtt_client # NULL /\ mqtt_connected

\* a call of mqtt_publish_sensors begins: the mqtt_is_enabled check
PublishEnter(t) ==
    /\ tpc[t] = "idle"
    /\ init_pc = "done"
    /\ IF ~mqtt_is_enabled
       THEN /\ tret' = [tret EXCEPT ![t] = "ESP_FAIL"]
            /\ tpc' = [tpc EXCEPT ![t] = "returned"]
       ELSE /\ tpc' = [tpc EXCEPT ![t] = "check_init"]
            /\ UNCHANGED tret
    /\ UNCHANGED <<pureVars, pullVars, libc, pushShared, toffset, tpeak, ti, first_sensor, call,
                   tjson, lifeVars>>

\* the json_mutex / json_buffer NULL check, then the call of xSemaphoreTake
PublishCheckInit(t) ==
    /\ tpc[t] = "check_init"
    /\ IF json_mutex = NULL \/ json_buffer = NULL
       THEN /\ tret' = [tret EXCEPT ![t] = "ESP_FAIL"]
            /\ tpc' = [tpc EXCEPT ![t] = "returned"]
            /\ UNCHANGED call
       ELSE /\ tpc' = [tpc EXCEPT ![t] = "take"]
            /\ call' = [call EXCEPT ![t].takes = @ + 1]
            /\ UNCHANGED tret
    /\ UNCHANGED <<pureVars, pullVars, libc, pushShared, toffset, tpeak, ti, first_sensor,
                   tjson, lifeVars>>

MutexAlwaysFree == TRUE

\* xSemaphoreTake can return pdTRUE
MutexFree == mutex_holder = "none"

ProceedAfterTimeout == "head"

\* where a call goes on when xSemaphoreTake did not return pdTRUE
AfterTimeout == "returned"

\* xSemaphoreTake(json_mutex, pdMS_TO_TICKS(1000)) returns pdTRUE;
\* char *json = json_buffer; int offset = 0
TakeOk(t) ==
    /\ tpc[t] = "take"
    /\ json_mutex # NULL
    /\ MutexFree
    /\ mutex_holder' = t
    /\ tpc' = [tpc EXCEPT ![t] = "head"]
    /\ tjson' = [tjson EXCEPT ![t] = IF json_buffer = NULL THEN "null" ELSE "live"]
    /\ toffset' = [toffset EXCEPT ![t] = 0]
    /\ tpeak' = [tpeak EXCEPT ![t] = 0]
    /\ UNCHANGED <<pureVars, pullVars, libc, pushConfig, json, published, ti, first_sensor,
                   tret, call, lifeVars>>

\* the mutex stayed taken for the 1000 ms: xSemaphoreTake returns pdFALSE
TakeTimeout(t) ==
    /\ tpc[t] = "take"
    /\ json_mutex # NULL
    /\ ~MutexFree
    /\ call' = [call EXCEPT ![t].timed_out = TRUE]
    /\ tpc' = [tpc EXCEPT ![t] = AfterTimeout]
    /\ tret' = [tret EXCEPT ![t] = IF AfterTimeout = "returned" THEN "ESP_FAIL" ELSE @]
    /\ toffset' = [toffset EXCEPT ![t] = 0]
    /\ tpeak' = [tpeak EXCEPT ![t] = 0]
    /\ UNCHANGED <<pureVars, pullVars, libc, pushShared, ti, first_sensor, tjson, lifeVars>>

\* the nine formatted writes before the sensor loop, in program order
\* (timestamp_ms = tv_sec * 1000 + tv_usec / 1000 prints three digits more
\* than tv_sec)
JsonHeadChunk(t, i) ==
    CASE i = 1 -> JsonChunk(t, "OPEN", 0, LenJsonOpen)
      [] i = 2 -> JsonChunk(t, "FIELD", 0, LenTimestamp + DecLen(Telemetry.tv_sec) + 3)
      [] i = 3 -> JsonChunk(t, "FIELD", 0, LenHostname + Len(PushHostname))
      [] i = 4 -> JsonChunk(t, "FIELD", 0, LenUptimeSeconds + DecLen(Telemetry.uptime_seconds))
      [] i = 5 -> JsonChunk(t, "FIELD", 0, LenWifiRssi + DecLen(Telemetry.rssi))
      [] i = 6 -> JsonChunk(t, "FIELD", 0, LenHeapFree + DecLen(Telemetry.free_heap))
      [] i = 7 -> JsonChunk(t, "FIELD", 0, LenHeapMinFree + DecLen(Telemetry.min_free_heap))
      [] i = 8 -> JsonChunk(t, "FIELD", 0, LenHeapLargest + DecLen(Telemetry.largest_free_block))
      [] OTHER -> JsonChunk(t, "ARRAY_OPEN", 0, LenSensorsOpen)

\* "{" up to "\"sensors\":[", then int i = 0 and first_sensor = true
JsonHead(t) ==
    /\ tpc[t] = "head"
    /\ tjson[t] # "null"
    /\ EmitJson(t, [i \in 1..9 |-> JsonHeadChunk(t, i)])
    /\ tpc' = [tpc EXCEPT ![t] = "sensors"]
    /\ ti' = [ti EXCEPT ![t] = 1]
    /\ first_sensor' = [first_sensor EXCEPT ![t] = TRUE]
    /\ UNCHANGED <<pureVars, pullVars, pushConfig, mutex_holder, published, tret, tjson,
                   cleanup_pc, last_event>>

SkippedUnlessAvailable(sensor) ==
    \/ sensor.metric_name = ""
    \/ ~sensor.available

\* the two `continue` tests at the head of the sensor loop body
SensorSkipped(sensor) ==
    \/ sensor.metric_name = ""
    \/ ~sensor.available
    \/ sensor.last_updated = 0

\* the formatted writes of one array element, in program order
EntryChunks(t, i) ==
    LET sensor == sensors[i]
    IN  <<JsonChunk(t, "ENTRY_OPEN", i, LenEntryOpen),
          JsonChunk(t, "ENTRY_FIELD", i, LenMetricName + Len(sensor.metric_name)),
          JsonChunk(t, "ENTRY_FIELD", i, LenDisplayName + Len(sensor.display_name)),
          JsonChunk(t, "ENTRY_FIELD", i, LenUnit + Len(sensor.unit)),
          JsonChunk(t, "ENTRY_FIELD", i, LenValue + FloatLen(sensor.value)),
          JsonChunk(t, "ENTRY_FIELD", i, LenLastUpdated + DecLen(sensor.last_updated))>>
        \o (IF sensor.device_name # ""
            THEN <<JsonChunk(t, "ENTRY_FIELD", i, LenDeviceName + Len(sensor.device_name))>>
            ELSE <<>>)
        \o (IF sensor.device_id # ""
            THEN <<JsonChunk(t, "ENTRY_FIELD", i, LenDeviceId + Len(sensor.device_id))>>
            ELSE <<>>)
        \o <<JsonChunk(t, "ENTRY_CLOSE", i, LenEntryClose)>>

SeparatorAlways(t, i, first) == <<JsonChunk(t, "COMMA", i, LenComma)>>

\* the separator written before an element
Separator(t, i, first) ==
    IF ~first THEN <<JsonChunk(t, "COMMA", i, LenComma)>> ELSE <<>>

\* one round of the sensor loop
SensorLoop(t) ==
    /\ tpc[t] = "sensors"
    /\ ti[t] <= Len(sensors)
    /\ IF SensorSkipped(sensors[ti[t]])
       THEN UNCHANGED <<toffset, tpeak, json, call, libc, first_sensor, faults>>
       ELSE /\ EmitJson(t, Separator(t, ti[t], first_sensor[t]) \o EntryChunks(t, ti[t]))
            /\ first_sensor' = [first_sensor EXCEPT ![t] = FALSE]
    /\ ti' = [ti EXCEPT ![t] = @ + 1]
    /\ UNCHANGED <<pureVars, pullVars, pushConfig, mutex_holder, published, tpc, tret, tjson,
                   cleanup_pc, last_event>>

\* the sensor loop ends; "]" and "}"
JsonTail(t) ==
    /\ tpc[t] = "sensors"
    /\ ti[t] > Len(sensors)
    /\ EmitJson(t, <<JsonChunk(t, "ARRAY_CLOSE", 0, LenSensorsClose),
                     JsonChunk(t, "CLOSE", 0, LenJsonClose)>>)
    /\ tpc' = [tpc EXCEPT ![t] = "publish"]
    /\ UNCHANGED <<pureVars, pullVars, pushConfig, mutex_holder, published, ti, first_sensor, tret,
                   tjson, cleanup_pc, last_event>>

\* msg_id = esp_mqtt_client_publish(mqtt_client, topic, json, offset, 0, 0)
Publish(t) ==
    /\ tpc[t] = "publish"
    /\ published' = [len |-> toffset[t], valid |-> json.written]
    /\ call' = [call EXCEPT ![t].handed = TRUE]
    /\ \E msg_id \in {0 - 1, 1} :
          tpc' = [tpc EXCEPT ![t] = IF msg_id < 0 THEN "give_fail" ELSE "give_ok"]
    /\ UNCHANGED <<pureVars, pullVars, libc, pushConfig, mutex_holder, json, toffset, tpeak, ti,
                   first_sensor, tret, tjson, lifeVars>>

GiveOnlyOnSuccess(t) ==
    /\ tpc[t] \in {"give_fail", "give_ok"}
    /\ mutex_holder' = IF mutex_holder = t /\ tpc[t] = "give_ok" THEN "none" ELSE mutex_holder
    /\ call' = [call EXCEPT ![t].gives = IF tpc[t] = "give_ok" THEN @ + 1 ELSE @]
    /\ tret' = [tret EXCEPT ![t] = IF tpc[t] = "give_ok" THEN "ESP_OK" ELSE "ESP_FAIL"]
    /\ tpc' = [tpc EXCEPT ![t] = "returned"]
    /\ UNCHANGED <<pureVars, pullVars, libc, pushConfig, json, published, toffset, tpeak, ti,
                   first_sensor, tjson, lifeVars>>

\* xSemaphoreGive(json_mutex) and the return
Give(t) ==
    /\ tpc[t] \in {"give_fail", "give_ok"}
    /\ json_mutex # NULL
    /\ mutex_holder' = IF mutex_holder = t THEN "none" ELSE mutex_holder
    /\ call' = [call EXCEPT ![t].gives = @ + 1]
    /\ tret' = [tret EXCEPT ![t] = IF tpc[t] = "give_ok" THEN "ESP_OK" ELSE "ESP_FAIL"]
    /\ tpc' = [tpc EXCEPT ![t] = "returned"]
    /\ UNCHANGED <<pureVars, pullVars, libc, pushConfig, json, published, toffset, tpeak, ti,
                   first_sensor, tjson, lifeVars>>

\* the caller has the result; the task is ready for its next call
Return(t) ==
    /\ tpc[t] = "returned"
    /\ tpc' = [tpc EXCEPT ![t] = "idle"]
    /\ tret' = [tret EXCEPT ![t] = "none"]
    /\ call' = [call EXCEPT ![t] = NewCall]
    /\ toffset' = [toffset EXCEPT ![t] = 0]
    /\ tpeak' = [tpeak EXCEPT ![t] = 0]
    /\ ti' = [ti EXCEPT ![t] = 0]
    /\ first_sensor' = [first_sensor EXCEPT ![t] = TRUE]
    /\ tjson' = [tjson EXCEPT ![t] = "unset"]
    /\ UNCHANGED <<pureVars, pullVars, libc, pushShared, lifeVars>>

NextPush ==
    \/ MqttInit
    \/ MqttEvent
    \/ \E t \in Tasks :
          \/ PublishEnter(t)
          \/ PublishCheckInit(t)
          \/ TakeOk(t)
          \/ TakeTimeout(t)
          \/ JsonHead(t)
          \/ SensorLoop(t)
          \/ JsonTail(t)
          \/ Publish(t)
          \/ Give(t)
          \/ Return(t)

(***************************************************************************)
(* Inputs of the push path.                                                *)
(***************************************************************************)
Sensor(m, a, u, dn, di) ==
    [metric_name |-> m, display_name |-> "Temperature", unit |-> "C", value |-> 21,
     last_updated |-> u, available |-> a, device_name |-> dn, device_id |-> di]

SensorKinds ==
    {Sensor("bthome_temp", TRUE, 1700000000, "porch", ""),
     Sensor("pump", FALSE, 1700000000, "", ""),
     Sensor("flow", TRUE, 0, "", ""),
     Sensor("", TRUE, 1700000000, "", "")}

Registries == UNION {[1..n -> SensorKinds] : n \in 0..MaxSensors}

StressRegistry ==
    [i \in 1..StressSensors |->
        Sensor("bthome_temperature", TRUE, 1700000000, "greenhouse north bench",
               "aa:bb:cc:dd:ee:01")]

MkMqttSettings(url) == [mqtt_broker_url |-> url, mqtt_topic |-> NULL, hostname |-> "station1"]

PushInputs ==
    {[mqtt_settings |-> MkMqttSettings(url), sensors |-> <<>>] : url \in {NULL, ""}}
    \cup
    {[mqtt_settings |-> MkMqttSettings("mqtt://broker"), sensors |-> r]
        : r \in Registries \cup {StressRegistry}}

PushStart ==
    /\ mqtt_client = NULL
    /\ mqtt_started = FALSE
    /\ mqtt_connected = FALSE
    /\ json_buffer = NULL
    /\ json_mutex = NULL
    /\ mutex_holder = "none"
    /\ json = [written |-> 0, oob |-> FALSE, doc |-> <<>>]
    /\ toffset = [t \in Tasks |-> 0]
    /\ ti = [t \in Tasks |-> 0]
    /\ tpeak = [t \in Tasks |-> 0]
    /\ first_sensor = [t \in Tasks |-> TRUE]
    /\ tret = [t \in Tasks |-> "none"]
    /\ call = [t \in Tasks |-> NewCall]
    /\ published = [len |-> 0 - 1, valid |-> 0]
    /\ tjson = [t \in Tasks |-> "unset"]
    /\ last_event = "none"
    /\ faults = {}

PureOff ==
    /\ fn_pc = "off"
    /\ fn_in = <<>>
    /\ fn_out = <<>>

\* a behaviour follows either one HTTP request or the publisher's tasks
InitPull ==
    /\ \E in \in PullInputs :
          /\ settings = in.settings
          /\ station = in.station
          /\ cache = in.cache
    /\ pc = "start"
    /\ PullStart
    /\ mqtt_settings = MkMqttSettings(NULL)
    /\ sensors = <<>>
    /\ init_pc = "off"
    /\ tpc = [t \in Tasks |-> "off"]
    /\ PushStart
    /\ cleanup_pc = "off"
    /\ PureOff

InitPush ==
    /\ \E in \in PushInputs :
          /\ mqtt_settings = in.mqtt_settings
          /\ sensors = in.sensors
    /\ init_pc = "pending"
    /\ tpc = [t \in Tasks |-> "idle"]
    /\ PushStart
    /\ cleanup_pc = "off"
    /\ settings = MkSettings(NULL, <<>>, <<>>)
    /\ station = DefaultStation
    /\ cache = <<>>
    /\ pc = "off"
    /\ PullStart
    /\ PureOff

Init == InitPull \/ InitPush

Next == NextPull \/ NextPush

Spec == Init /\ [][Next]_vars


(***************************************************************************)
(* Runs of the pure helpers is_mac_allowed and                             *)
(* make_prometheus_metric_name on their own.                               *)
(***************************************************************************)
\* characters of display names
NameChars == {" ", "-", "A", "Z", "a", "_", "1"}

\* a display name longer than metric_name[128] can hold after the prefix
LongName == [i \in 1..MetricNameSize |-> IF i % 2 = 1 THEN "A" ELSE "-"]

Names == UNION {[1..n -> NameChars] : n \in 0..MaxNameLen} \cup {LongName}

LookupEntries == {Filter(a, e, n) : a \in {1, 2}, e \in BOOLEAN, n \in {"", "porch"}}

LookupFilters == UNION {[1..n -> LookupEntries] : n \in 0..MaxFilters}

LookupAddrs == {1, 2, 3}

\* the identifier without its namespace token
strip_prefix(id) == Tail(id)

\* is_mac_allowed(addr, settings, device_name, sizeof(device_name))
DeviceLookup ==
    /\ fn_pc = "lookup"
    /\ fn_out' = is_mac_allowed(fn_in.addr, fn_in.filters)
    /\ fn_pc' = "looked_up"
    /\ UNCHANGED <<fn_in, pullVars, libc, pushVars>>

\* make_prometheus_metric_name(name, metric_name, sizeof(metric_name))
Normalize ==
    /\ fn_pc = "normalize"
    /\ fn_out' = [first |-> make_prometheus_metric_name(fn_in), second |-> <<>>]
    /\ fn_pc' = "normalized"
    /\ UNCHANGED <<fn_in, pullVars, libc, pushVars>>

\* make_prometheus_metric_name on the previous result without its prefix
NormalizeAgain ==
    /\ fn_pc = "normalized"
    /\ fn_out' = [fn_out EXCEPT
                    !.second = make_prometheus_metric_name(strip_prefix(fn_out.first))]
    /\ fn_pc' = "renormalized"
    /\ UNCHANGED <<fn_in, pullVars, libc, pushVars>>

NextPure == DeviceLookup \/ Normalize \/ NormalizeAgain

InitPure ==
    /\ \/ /\ fn_pc = "lookup"
          /\ fn_in \in {[addr |-> a, filters |-> f] : a \in LookupAddrs, f \in LookupFilters}
       \/ /\ fn_pc = "normalize"
          /\ fn_in \in Names
    /\ fn_out = <<>>
    /\ settings = MkSettings(NULL, <<>>, <<>>)
    /\ station = DefaultStation
    /\ cache = <<>>
    /\ pc = "off"
    /\ PullStart
    /\ mqtt_settings = MkMqttSettings(NULL)
    /\ sensors = <<>>
    /\ init_pc = "off"
    /\ tpc = [t \in Tasks |-> "off"]
    /\ PushStart
    /\ cleanup_pc = "off"

SpecPure == InitPure /\ [][NextPure]_vars

(***************************************************************************)
(* mqtt_publisher_cleanup, called once by a task of its own while the      *)
(* publishing tasks run.  It takes no lock.  Each of its three blocks is   *)
(* one step: the release of a resource and the clearing of its pointer.    *)
(***************************************************************************)
\* the firmware has panicked
Halted == \E t \in Tasks : tpc[t] = "panic"

\* if (mqtt_client != NULL) { stop; destroy; mqtt_client = NULL;
\* mqtt_connected = false; }
CleanupClient ==
    /\ cleanup_pc = "idle"
    /\ ~Halted
    /\ cleanup_pc' = "buffer"
    /\ IF mqtt_client # NULL
       THEN /\ mqtt_client' = NULL
            /\ mqtt_started' = FALSE
            /\ mqtt_connected' = FALSE
       ELSE UNCHANGED <<mqtt_client, mqtt_started, mqtt_connected>>
    /\ UNCHANGED <<pureVars, pullVars, libc, mqtt_settings, sensors, init_pc, json_buffer,
                   json_mutex, mutex_holder, json, published, pushLocal, last_event, faults>>

\* if (json_buffer != NULL) { free(json_buffer); json_buffer = NULL; }
\* the local `json` of a call that is formatting keeps pointing to it
CleanupBuffer ==
    /\ cleanup_pc = "buffer"
    /\ ~Halted
    /\ cleanup_pc' = "mutex"
    /\ json_buffer' = NULL
    /\ tjson' = [t \in Tasks |-> IF json_buffer # NULL /\ tjson[t] = "live"
                                 THEN "freed" ELSE tjson[t]]
    /\ UNCHANGED <<pureVars, pullVars, libc, mqtt_settings, sensors, init_pc, mqtt_client,
                   mqtt_started, mqtt_connected, json_mutex, mutex_holder, json, published,
                   tpc, toffset, tpeak, ti, first_sensor, tret, call, last_event, faults>>

\* if (json_mutex != NULL) { vSemaphoreDelete(json_mutex); json_mutex = NULL; }
CleanupMutex ==
    /\ cleanup_pc = "mutex"
    /\ ~Halted
    /\ cleanup_pc' = "done"
    /\ json_mutex' = NULL
    /\ mutex_holder' = IF json_mutex # NULL THEN "none" ELSE mutex_holder
    /\ UNCHANGED <<pureVars, pullVars, libc, mqtt_settings, sensors, init_pc, mqtt_client,
                   mqtt_started, mqtt_connected, json_buffer, json, published, pushLocal,
                   last_event, faults>>

\* a call reaches xSemaphoreTake or xSemaphoreGive with json_mutex NULL, or
\* its first snprintf with json NULL: the access traps and the firmware
\* panics, which stops every task and the delivery of events
Panic(t) ==
    /\ \/ tpc[t] \in {"take", "give_ok", "give_fail"} /\ json_mutex = NULL
       \/ tpc[t] = "head" /\ tjson[t] = "null"
    /\ faults' = faults \cup {CASE tpc[t] = "take" -> "take_deleted"
                                [] tpc[t] = "head" -> "write_null"
                                [] OTHER -> "give_deleted"}
    /\ tpc' = [u \in Tasks |-> "panic"]
    /\ mqtt_started' = FALSE
    /\ UNCHANGED <<pureVars, pullVars, libc, mqtt_settings, sensors, init_pc, mqtt_client,
                   mqtt_connected, json_buffer, json_mutex, mutex_holder, json, published,
                   toffset, tpeak, ti, first_sensor, tret, call, tjson, cleanup_pc,
                   last_event>>

NextLife ==
    \/ NextPush
    \/ CleanupClient
    \/ CleanupBuffer
    \/ CleanupMutex
    \/ \E t \in Tasks : Panic(t)

LifeRegistries ==
    {<<Sensor("bthome_temp", TRUE, 1700000000, "porch", "")>>,
     <<Sensor("pump", FALSE, 1700000000, "", ""),
       Sensor("bthome_temp", TRUE, 1700000000, "porch", "")>>}

LifeInputs ==
    {[mqtt_settings |-> MkMqttSettings(NULL), sensors |-> <<>>]}
    \cup
    {[mqtt_settings |-> MkMqttSettings("mqtt://broker"), sensors |-> r] : r \in LifeRegistries}

\* the publisher's tasks together with one call of mqtt_publisher_cleanup
InitLife ==
    /\ \E in \in LifeInputs :
          /\ mqtt_settings = in.mqtt_settings
          /\ sensors = in.sensors
    /\ init_pc = "pending"
    /\ tpc = [t \in Tasks |-> "idle"]
    /\ PushStart
    /\ cleanup_pc = "idle"
    /\ settings = MkSettings(NULL, <<>>, <<>>)
    /\ station = DefaultStation
    /\ cache = <<>>
    /\ pc = "off"
    /\ PullStart
    /\ PureOff

SpecLife == InitLife /\ [][NextLife]_vars


(***************************************************************************)
(* Properties                                                              *)
(***************************************************************************)
\* the pull export has handed its document to the HTTP server
PullDone == pc = "done" /\ sent.status = 200

\* task t has handed the buffer to the MQTT client and not yet returned
Handed(t) == tpc[t] \in {"give_ok", "give_fail"}

\* bytes an unbounded buffer would hold after the formatted writes d
RECURSIVE IntendedLen(_, _)
IntendedLen(d, n) == IF n = 0 THEN 0 ELSE d[n].len + IntendedLen(d, n - 1)

\* C1: in both exporters the buffer cursor lies in [0, capacity] after every
\* append: 0..8192 for the pull document, 0..4096 for the push document.
C1_CursorWithinCapacity ==
    /\ buf.offset \in 0..ResponseSize
    /\ \A t \in Tasks : /\ toffset[t] \in 0..JsonBufferSize
                        /\ tpeak[t] \in 0..JsonBufferSize

\* C2: when the full intended output is longer than the capacity, the byte
\* range handed to the transport is no longer than the capacity and is a
\* prefix of the intended document: it lies within the bytes of the buffer
\* that hold document text.
C2_TransportGetsPrefix ==
    /\ (PullDone /\ IntendedLen(doc, Len(doc)) > ResponseSize)
          => (sent.len <= ResponseSize /\ sent.len <= sent.valid)
    /\ \A t \in Tasks :
          (Handed(t) /\ IntendedLen(json.doc, Len(json.doc)) > JsonBufferSize)
             => (published.len <= JsonBufferSize /\ published.len <= published.valid)

\* task t is between its xSemaphoreTake and its xSemaphoreGive
InCriticalSection(t) ==
    tpc[t] \in {"head", "sensors", "publish", "give_ok", "give_fail"}

\* C3: at most one call of mqtt_publish_sensors at a time is between taking
\* and giving json_mutex, and a call writes to json_buffer or hands it to the
\* MQTT client only while it holds json_mutex.
C3_BufferSerialized ==
    /\ [](\A t, u \in Tasks : (InCriticalSection(t) /\ InCriticalSection(u)) => t = u)
    /\ [][\A t \in Tasks :
            (\/ call'[t].writes > call[t].writes
             \/ (call'[t].handed /\ ~call[t].handed))
               => (mutex_holder = t /\ mutex_holder' = t)]_vars
    /\ [][json' # json => (mutex_holder # "none" /\ mutex_holder' = mutex_holder)]_vars

\* one task is writing the buffer while the other waits for the mutex
C3_Witness ==
    \E t, u \in Tasks :
        /\ t # u
        /\ mutex_holder = t
        /\ call[t].writes > 0
        /\ tpc[t] = "sensors"
        /\ tpc[u] = "take"

\* C4: a call whose xSemaphoreTake timed out returns ESP_FAIL after that one
\* attempt, has written nothing to json_buffer, has handed nothing to the
\* MQTT client, and neither holds nor gives json_mutex; the step that times
\* out leaves the buffer, the mutex and the last publication as they were.
C4_TimeoutFailsCleanly ==
    /\ [](\A t \in Tasks :
            call[t].timed_out =>
               /\ tpc[t] = "returned"
               /\ tret[t] = "ESP_FAIL"
               /\ call[t].takes = 1
               /\ call[t].writes = 0
               /\ ~call[t].handed
               /\ call[t].gives = 0
               /\ mutex_holder # t)
    /\ [][\A t \in Tasks :
            (call'[t].timed_out /\ ~call[t].timed_out)
               => (json' = json /\ mutex_holder' = mutex_holder
                   /\ published' = published)]_vars

\* a call has timed out while the other task holds the mutex, mid-document
C4_Witness ==
    \E t, u \in Tasks :
        /\ t # u
        /\ call[t].timed_out
        /\ mutex_holder = u
        /\ call[u].writes > 0


\* the device lines among the formatted writes d: those of the RSSI family
\* and those of the kind families
RssiLines(d) == SelectSeq(d, LAMBDA c : c.tag = "VALUE" /\ c.kind = 0 /\ c.id = RssiId)

KindLines(d) == SelectSeq(d, LAMBDA c : c.tag = "VALUE" /\ c.kind # 0)

RssiHeaders(d) == SelectSeq(d, LAMBDA c : c.tag = "HELP_TYPE" /\ c.id = RssiId)

\* device_lookup(address) = Included: no filters, or the first entry with
\* this address is enabled
Included(addr) ==
    LET f == settings.mac_filters
        hits == {i \in 1..Len(f) : f[i].mac_addr = addr}
    IN  \/ Len(f) = 0
        \/ /\ hits # {}
           /\ f[CHOOSE i \in hits : \A j \in hits : i <= j].enabled

\* the address matches an enabled filter entry
MatchesEnabledEntry(addr) ==
    \E i \in 1..Len(settings.mac_filters) :
        /\ settings.mac_filters[i].mac_addr = addr
        /\ settings.mac_filters[i].enabled

IncludedDevices == SelectSeq(cache, LAMBDA d : Included(d.addr))

SelectionEmpty == Len(settings.selected_bthome_object_ids) = 0

Selected(kind) ==
    \E i \in 1..Len(settings.selected_bthome_object_ids) :
        settings.selected_bthome_object_ids[i] = kind

Registered(kind) == bthome_get_object_name(kind) # NULL

OutputAddresses(d) ==
    {RssiLines(d)[i].mac : i \in 1..Len(RssiLines(d))}
       \cup {KindLines(d)[i].mac : i \in 1..Len(KindLines(d))}

CachedAddresses == {cache[i].addr : i \in 1..Len(cache)}

HasKindLine(d, k) ==
    \E i \in 1..Len(KindLines(doc)) :
        KindLines(doc)[i].kind = k /\ KindLines(doc)[i].mac = d.addr

\* every cached device is in the RSSI family and in the family of each
\* selected, registered kind its packet holds
EveryDeviceAppears ==
    \A n \in 1..Len(cache) :
        /\ \E i \in 1..Len(RssiLines(doc)) : RssiLines(doc)[i].mac = cache[n].addr
        /\ \A j \in 1..Len(cache[n].packet) :
              LET k == cache[n].packet[j].object_id
              IN  (Selected(k) /\ Registered(k)) => HasKindLine(cache[n], k)

RECURSIVE KindsOfDevices(_)
KindsOfDevices(n) ==
    IF n = 0 THEN <<>>
    ELSE KindsOfDevices(n - 1)
            \o [j \in 1..Len(cache[n].packet) |-> cache[n].packet[j].object_id]

\* kinds of the measurements the discovery iteration has visited so far, in
\* the order it visited them
VisitedKinds ==
    IF dev_i > Len(cache) THEN KindsOfDevices(Len(cache))
    ELSE KindsOfDevices(dev_i - 1)
            \o [j \in 1..(meas_i - 1) |-> cache[dev_i].packet[j].object_id]

SelectedSet ==
    {settings.selected_bthome_object_ids[i] :
        i \in 1..Len(settings.selected_bthome_object_ids)}

\* the selected kinds among ks, each once, in the order of their first
\* occurrence in ks
FirstSeen(ks) ==
    LET sel == SelectedSet
        first == SelectSeq([j \in 1..Len(ks) |-> j],
                           LAMBDA j : /\ ks[j] \in sel
                                      /\ \A i \in 1..(j - 1) : ks[i] # ks[j])
    IN  [i \in 1..Len(first) |-> ks[first[i]]]

\* C8: at every point of the discovery phase the unique-kind list holds only
\* selected kinds, holds no kind twice, lists the kinds in the order the
\* cache iteration first saw them, and has at most 256 entries.
C8_UniqueKindList ==
    pc = "collect" =>
       LET visited == VisitedKinds
       IN  /\ unique_metrics = FirstSeen(visited)
           /\ \A i \in 1..Len(unique_metrics) : Selected(unique_metrics[i])
           /\ Cardinality({unique_metrics[i] : i \in 1..Len(unique_metrics)})
                 = Len(unique_metrics)
           /\ Len(unique_metrics) <= MaxCount

\* discovery has seen a selected kind twice and then a second selected kind,
\* and lists the two in the order seen, which is not that of the selection
C8_Witness ==
    /\ pc = "collect"
    /\ settings.selected_bthome_object_ids = <<4, 3, 1>>
    /\ unique_metrics = <<1, 3>>
    /\ \E i, j \in 1..Len(VisitedKinds) :
          i # j /\ VisitedKinds[i] = 1 /\ VisitedKinds[j] = 1

\* discovery has seen every object id and two of them twice, and has filled
\* the list to its capacity
DiscoveryFillsList ==
    /\ pc = "collect"
    /\ Len(VisitedKinds) = MaxCount + 2
    /\ Len(unique_metrics) = MaxCount

\* lines of the formatted writes d
HelpLines(d, id) ==
    SelectSeq(d, LAMBDA c : c.id = id /\ c.tag \in {"HELP_TYPE", "HELP_TYPE_VALUE", "HELP_BEGIN"})

TypeLines(d, id) ==
    SelectSeq(d, LAMBDA c : c.id = id /\ c.tag \in {"HELP_TYPE", "HELP_TYPE_VALUE", "TYPE"})

\* C9: in the document of every pull export each metric family, identified by
\* its metric identifier, has exactly one HELP line and exactly one TYPE line,
\* and the lines carrying an identifier are one contiguous block that starts
\* with the header.
C9_OneHeaderPerFamily ==
    PullDone =>
       \A k \in 1..Len(doc) :
          /\ Len(HelpLines(doc, doc[k].id)) = 1
          /\ Len(TypeLines(doc, doc[k].id)) = 1
          /\ \A i \in 1..(k - 1) : doc[i].id = doc[k].id => doc[k - 1].id = doc[k].id
          /\ (k = 1 \/ doc[k - 1].id # doc[k].id) =>
                doc[k].tag \in {"HELP_TYPE", "HELP_TYPE_VALUE", "HELP_BEGIN"}

\* place of kind k in the unique-kind list
PlaceOf(k) == CHOOSE i \in 1..Len(unique_metrics) : unique_metrics[i] = k

\* rank of the family a formatted write belongs to
FamilyRank(c) ==
    CASE c.kind # 0 -> 5 + PlaceOf(c.kind)
      [] c.id = WeightId -> 1
      [] c.id = WeightRawId -> 2
      [] c.id = WifiId -> 3
      [] c.id = UptimeId -> 4
      [] OTHER -> 5

\* kinds of the family blocks in d, in document order
BlockKinds(d) ==
    LET h == SelectSeq(d, LAMBDA c : c.tag = "HELP_BEGIN")
    IN  [i \in 1..Len(h) |-> h[i].kind]

\* C10: the families of a pull document come in the order weight, raw weight,
\* WiFi RSSI, uptime, beacon RSSI, then one block per listed registered kind
\* in the order of the unique-kind list; no formatted write of a later family
\* precedes one of an earlier family.
C10_FamilyOrder ==
    /\ \A i \in 1..(Len(doc) - 1) : FamilyRank(doc[i]) <= FamilyRank(doc[i + 1])
    /\ \A i \in 1..Len(doc) : doc[i].kind # 0 => doc[i].kind \in SelectedSet
    /\ PullDone => BlockKinds(doc) = SelectSeq(unique_metrics, Registered)

\* a finished export with all four fixed families, the RSSI family and the
\* blocks of kinds 1 and 3 in first-seen order, the reverse of their order in
\* the selection
C10_Witness ==
    /\ PullDone
    /\ settings.selected_bthome_object_ids = <<4, 3, 1>>
    /\ BlockKinds(doc) = <<1, 3>>
    /\ Len(RssiLines(doc)) = 2
    /\ Len(KindLines(doc)) = 3
    /\ \A id \in {WeightId, WeightRawId, WifiId, UptimeId} : Len(HelpLines(doc, id)) = 1


\* C11: a kind of the unique-kind list without a registered display name is
\* skipped in emission: no formatted write carries it, the export still ends
\* with status 200 and ESP_OK, and every registered kind of the list, before
\* or after it, gets its header.
C11_UnregisteredKindSkipped ==
    /\ \A i \in 1..Len(doc) : doc[i].kind # 0 => Registered(doc[i].kind)
    /\ (pc = "done" /\ response = "freed") =>
          /\ sent.status = 200
          /\ ret = "ESP_OK"
          /\ \A j \in 1..Len(unique_metrics) :
                Registered(unique_metrics[j]) =>
                   /\ \E i \in 1..Len(doc) :
                         doc[i].tag = "HELP_BEGIN" /\ doc[i].kind = unique_metrics[j]
                   /\ \E i \in 1..Len(doc) :
                         doc[i].tag = "TYPE" /\ doc[i].kind = unique_metrics[j]

\* a finished export whose list holds an unregistered kind before a
\* registered one, the registered one with a value line
C11_Witness ==
    /\ PullDone
    /\ \E j, k \in 1..Len(unique_metrics) :
          /\ j < k
          /\ ~Registered(unique_metrics[j])
          /\ Registered(unique_metrics[k])
          /\ \E i \in 1..Len(KindLines(doc)) : KindLines(doc)[i].kind = unique_metrics[k]


\* the text "%02x:%02x:%02x:%02x:%02x:%02x" has to give for the addresses
ExpectedHex(addr) ==
    CASE addr = 1 -> "aa:bb:cc:dd:ee:01"
      [] addr = 2 -> "aa:bb:cc:dd:ee:02"
      [] OTHER -> "aa:bb:cc:dd:ee:03"

\* the display name device_lookup gives with entry e deciding
ExpectedName(addr, e) ==
    IF e.name # "" THEN [t |-> "name", text |-> e.name] ELSE [t |-> "hex", text |-> ExpectedHex(addr)]

GivenName(r) == [t |-> r.device_name.t, text |-> r.device_name.text]

\* C12 as the specification states it: with no filters the result is Included
\* with the hex address; otherwise, for every configured entry the address
\* matches, the result is Included with that entry's name (or the hex
\* address) when the entry is enabled and Excluded when it is disabled, and
\* an address matching no entry is Excluded.
C12_EveryMatchingEntryDecides ==
    fn_pc = "looked_up" =>
       LET f == fn_in.filters
           a == fn_in.addr
       IN  IF Len(f) = 0
           THEN fn_out.allowed /\ GivenName(fn_out) = [t |-> "hex", text |-> ExpectedHex(a)]
           ELSE /\ \A i \in 1..Len(f) :
                      f[i].mac_addr = a =>
                         IF f[i].enabled
                         THEN fn_out.allowed /\ GivenName(fn_out) = ExpectedName(a, f[i])
                         ELSE ~fn_out.allowed
                /\ (\A i \in 1..Len(f) : f[i].mac_addr # a) => ~fn_out.allowed

\* C12 as the code has it: with no filters the result is Included with the
\* colon-separated lowercase hex address; otherwise the first configured
\* entry with the address decides: Included with its name (the hex address
\* when the name is empty) when it is enabled, Excluded when it is disabled;
\* an address matching no entry is Excluded.
C12_FirstMatchingEntryDecides ==
    fn_pc = "looked_up" =>
       LET f == fn_in.filters
           a == fn_in.addr
           hits == {i \in 1..Len(f) : f[i].mac_addr = a}
       IN  IF Len(f) = 0
           THEN fn_out.allowed /\ GivenName(fn_out) = [t |-> "hex", text |-> ExpectedHex(a)]
           ELSE IF hits = {} THEN ~fn_out.allowed
           ELSE LET e == f[CHOOSE i \in hits : \A j \in hits : i <= j]
                IN  IF e.enabled
                    THEN /\ fn_out.allowed
                         /\ GivenName(fn_out) = ExpectedName(a, e)
                         /\ fn_out.device_name.len = Len(fn_out.device_name.text)
                    ELSE ~fn_out.allowed

\* the lookup of an address whose first entry is enabled and named, after an
\* entry for another address
C12_Witness ==
    /\ fn_pc = "looked_up"
    /\ fn_in = [addr |-> 2, filters |-> <<Filter(1, FALSE, ""), Filter(2, TRUE, "porch")>>]
    /\ fn_out.allowed
    /\ fn_out.device_name.text = "porch"


\* what normalize has to make of a character of NameChars
ExpectedChar(c) ==
    CASE c = " " -> "_" [] c = "-" -> "_" [] c = "A" -> "a" [] c = "Z" -> "z"
      [] c = "a" -> "a" [] c = "_" -> "_" [] OTHER -> "1"

\* C16: normalize(strip_prefix(normalize(x))) = normalize(x) for every display
\* name x, where normalize(x) is the token bthome_ followed by the characters
\* of x with space and hyphen as underscore, upper case as lower case and
\* every other character unchanged (as far as metric_name[128] holds them).
C16_NormalizeIdempotent ==
    /\ fn_pc = "renormalized" => fn_out.second = fn_out.first
    /\ fn_pc \in {"normalized", "renormalized"} =>
          LET kept == Min(Len(fn_in), MetricNameSize - LenPrefix - 1)
          IN  fn_out.first = <<"bthome_">> \o [i \in 1..kept |-> ExpectedChar(fn_in[i])]

\* a name with an upper-case letter, a space and a hyphen, normalized twice
C16_Witness ==
    /\ fn_pc = "renormalized"
    /\ fn_in = <<"A", " ", "-">>
    /\ fn_out.first = <<"bthome_", "a", "_", "_">>
    /\ fn_out.second = <<"bthome_", "a", "_", "_">>

\* a name that does not fit metric_name[128], normalized twice
LongNameNormalized ==
    /\ fn_pc = "renormalized"
    /\ fn_in = LongName
    /\ Len(fn_out.first) = 1 + (MetricNameSize - 1 - LenPrefix)
    /\ Len(fn_out.first) < 1 + Len(fn_in)


\* sensor i has an element in the sensors array of the formatted writes d
HasEntry(d, i) == \E n \in 1..Len(d) : d[n].tag = "ENTRY_OPEN" /\ d[n].sensor = i

EntriesOf(d, i) == SelectSeq(d, LAMBDA c : c.tag = "ENTRY_OPEN" /\ c.sensor = i)

\* C13 as the specification states it: a registered sensor has an element in
\* the sensors array of a push document if and only if it is available and
\* its last_updated is not 0; nothing else includes or excludes it.
C13_IncludedIffAvailableAndUpdated ==
    \A t \in Tasks :
        Handed(t) =>
           \A i \in 1..Len(sensors) :
               HasEntry(json.doc, i) <=> (sensors[i].available /\ sensors[i].last_updated # 0)

\* C13 as the code has it: a registered sensor has an element (exactly one)
\* in the sensors array of a push document if and only if its metric name is
\* not empty, it is available and its last_updated is not 0.
C13_IncludedIffNamedAvailableAndUpdated ==
    \A t \in Tasks :
        Handed(t) =>
           \A i \in 1..Len(sensors) :
               /\ HasEntry(json.doc, i) <=>
                     /\ sensors[i].metric_name # ""
                     /\ sensors[i].available
                     /\ sensors[i].last_updated # 0
               /\ Len(EntriesOf(json.doc, i)) <= 1

\* a document handed over for a registry of a sensor never updated, an
\* unavailable one and an included one
C13_Witness ==
    \E t \in Tasks :
        /\ Handed(t)
        /\ Len(sensors) = 3
        /\ sensors[1].available /\ sensors[1].last_updated = 0
        /\ ~sensors[2].available /\ sensors[2].last_updated # 0
        /\ HasEntry(json.doc, 3)
        /\ ~HasEntry(json.doc, 1)
        /\ ~HasEntry(json.doc, 2)

TagCount(d, tag) == Len(SelectSeq(d, LAMBDA c : c.tag = tag))

\* C14: in the sensors array of the push document k elements are separated
\* by k-1 commas (none for k = 0 or 1); every comma stands directly between
\* the close of one element and the open of the next, so none follows the
\* opening bracket and none precedes the closing bracket.
C14_CommasBetweenElements ==
    LET d == json.doc
    IN  /\ \A n \in 1..Len(d) :
              /\ d[n].tag = "COMMA" =>
                    /\ n > 1 /\ d[n - 1].tag = "ENTRY_CLOSE"
                    /\ n < Len(d) /\ d[n + 1].tag = "ENTRY_OPEN"
              /\ d[n].tag = "ENTRY_OPEN" => d[n - 1].tag \in {"ARRAY_OPEN", "COMMA"}
              /\ d[n].tag = "ARRAY_CLOSE" => d[n - 1].tag \in {"ARRAY_OPEN", "ENTRY_CLOSE"}
        /\ \A t \in Tasks :
              Handed(t) =>
                 /\ TagCount(d, "ENTRY_OPEN") = TagCount(d, "ENTRY_CLOSE")
                 /\ TagCount(d, "COMMA") =
                       IF TagCount(d, "ENTRY_OPEN") = 0 THEN 0
                       ELSE TagCount(d, "ENTRY_OPEN") - 1

\* three sensors with availability [true, false, true]: two elements and one
\* comma
C14_Witness ==
    \E t \in Tasks :
        /\ Handed(t)
        /\ Len(sensors) = 3
        /\ ~SensorSkipped(sensors[1])
        /\ ~sensors[2].available
        /\ ~SensorSkipped(sensors[3])
        /\ TagCount(json.doc, "ENTRY_OPEN") = 2
        /\ TagCount(json.doc, "COMMA") = 1


\* C15: when the allocation of the response buffer fails, the pull request
\* is answered with HTTP 500 and the handler returns failure at once: no
\* metric line has been formatted, the cache has not been iterated, no
\* kind has been collected and no bytes of a document are handed to the
\* transport, whatever the settings and the cache hold.
C15_AllocationFailureSendsOnly500 ==
    (pc # "off" /\ sent.status = 500) =>
       /\ pc = "done"
       /\ ret = "ESP_FAIL"
       /\ response = "none"
       /\ doc = <<>>
       /\ buf = EmptyBuf
       /\ unique_metrics = <<>>
       /\ step = 0 /\ fam_i = 0 /\ dev_i = 0 /\ meas_i = 0
       /\ sent.len = 0 /\ sent.valid = 0

\* the allocation failed for a request with cached devices and a selection
C15_Witness ==
    /\ pc = "done"
    /\ sent.status = 500
    /\ ret = "ESP_FAIL"
    /\ Len(cache) > 0
    /\ ~SelectionEmpty


\* the call of task t got json_mutex from its xSemaphoreTake
Acquired(t) == call[t].takes = 1 /\ ~call[t].timed_out

\* C18: a call of mqtt_publish_sensors that acquired json_mutex has given
\* it exactly once when it returns, after a successful publish and after a
\* failed one alike, and a call that did not acquire it never gives it; the
\* mutex is held only by a task between its take and its give, so whenever
\* no call is in that section the mutex is free for the next call.
C18_LockReleasedOnce ==
    /\ \A t \in Tasks :
          /\ tpc[t] = "returned" => call[t].gives = IF Acquired(t) THEN 1 ELSE 0
          /\ InCriticalSection(t) => (Acquired(t) /\ call[t].gives = 0)
          /\ mutex_holder = t => InCriticalSection(t)
    /\ (\A t \in Tasks : ~InCriticalSection(t)) => mutex_holder = "none"

\* a call whose publish failed has returned, and the other task's call has
\* acquired the mutex after it
C18_Witness ==
    \E t, u \in Tasks :
        /\ t # u
        /\ tpc[t] = "returned"
        /\ tret[t] = "ESP_FAIL"
        /\ call[t].handed
        /\ call[t].gives = 1
        /\ mutex_holder = u
        /\ tpc[u] = "head"


PastInitCheck(t) ==
    tpc[t] \in {"take", "head", "sensors", "publish", "give_ok", "give_fail"}

\* C19: while a call of mqtt_publish_sensors is between its initialization
\* check and its give of json_mutex, json_buffer is not freed and json_mutex
\* is not deleted, and no call writes to a freed buffer or takes or gives a
\* deleted mutex, however mqtt_publisher_cleanup interleaves with it.
C19_NoTeardownDuringPublish ==
    /\ \A t \in Tasks :
          PastInitCheck(t) => (json_buffer # NULL /\ json_mutex # NULL)
    /\ faults = {}

=============================================================================
